---- MODULE Spec2Model ----
(***************************************************************************)
(* Model of the concurrent proxy tester (src/main.go).                     *)
(*                                                                         *)
(*   Spec      : ProxyTester.TestProxies, the worker pool: the caller      *)
(*               goroutine, maxWorkers worker goroutines, the goroutine    *)
(*               that waits on the WaitGroup and closes the results        *)
(*               channel, and the two buffered channels.                   *)
(*   FairSpec  : the same machine under the fairness of the Go scheduler   *)
(*               (every goroutine that can run eventually runs).           *)
(*   ProbeSpec : ProxyTester.testProxy as a function of the address and    *)
(*               of what the network answers, applied to every input of    *)
(*               a bounded set.                                            *)
(*   LoadSpec  : loadProxiesFromReader, one scanned line per step, on      *)
(*               every proxy list of a bounded set.                        *)
(*                                                                         *)
(* Text is a sequence of one-character strings, so that trimming and IP    *)
(* parsing are computed, and number formatting produces digits.            *)
(***************************************************************************)
EXTENDS Integers, Sequences, FiniteSets, Bags, TLC

VARIABLES
    proxies,        \* the argument of TestProxies
    maxWorkers,     \* pt.maxWorkers
    deterministic,  \* TRUE: the network answers as a fixed function of the address
    fixture,        \* that function (address -> network answer)
    jobs,           \* buffered content of the jobs channel
    jobsClosed,     \* close(jobs) has run
    results,        \* buffered content of the results channel
    resultsClosed,  \* close(results) has run
    wg,             \* the WaitGroup counter
    mainpc,         \* position of the goroutine that called TestProxies
    i,              \* loop variable of the "Start workers" loop
    sent,           \* number of addresses already sent on jobs
    wpc,            \* position of each worker goroutine
    wjob,           \* the loop variable proxy of each worker
    wres,           \* the local variable result of each worker
    suppc,          \* position of the goroutine running wg.Wait(); close(results)
    allResults,     \* the slice built by the collector
    probed,         \* history: addresses for which testProxy has returned
    panicked,       \* a send on a closed channel happened
    pURL,           \* ProbeSpec: the argument of testProxy
    pNet,           \* ProbeSpec: what the network answers to that call
    pOut,           \* ProbeSpec: the value testProxy returned
    ppc,            \* ProbeSpec: "call" before, "ret" after the call
    pSteps,         \* ProbeSpec: the library calls that call of testProxy made, in order
    lLines,         \* LoadSpec: the lines of the reader, as scanner.Text() gives them
    lOut,           \* LoadSpec: the slice proxies of loadProxiesFromReader
    lRead,          \* LoadSpec: the number of lines the scanner has delivered
    lpc             \* LoadSpec: "scan" in the loop, "ret" after the return

poolVars == <<proxies, maxWorkers, deterministic, fixture, jobs, jobsClosed,
              results, resultsClosed, wg, mainpc, i, sent, wpc, wjob, wres,
              suppc, allResults, probed, panicked>>
probeVars == <<pURL, pNet, pOut, ppc, pSteps>>
loadVars == <<lLines, lOut, lRead, lpc>>
vars == <<poolVars, probeVars, loadVars>>

----------------------------------------------------------------------------
(* Bounds *)

MaxInput == 2       \* longest input list
MaxWorkers == 2     \* largest worker count
MaxBody == 4        \* longest response body enumerated exhaustively
MaxLine == 2        \* longest line of a proxy list enumerated exhaustively
MaxLines == 2       \* largest number of lines of a proxy list

----------------------------------------------------------------------------
(* Text helpers *)

Digits == <<"0", "1", "2", "3", "4", "5", "6", "7", "8", "9">>

RECURSIVE Itoa(_)
\* fmt's %d of a non-negative integer: its decimal digits
Itoa(n) == IF n < 10 THEN <<Digits[n + 1]>>
           ELSE Itoa(n \div 10) \o <<Digits[(n % 10) + 1]>>

WhiteSpace == {" ", "\t", "\n", "\r"}
DecDigits == {"0", "1", "2", "3", "4", "5", "6", "7", "8", "9"}
HexDigits == DecDigits \cup {"a", "b", "c", "d", "e", "f", "A", "B", "C", "D", "E", "F"}

RECURSIVE TrimLeft(_)
TrimLeft(s) == IF s # <<>> /\ Head(s) \in WhiteSpace THEN TrimLeft(Tail(s)) ELSE s

RECURSIVE TrimRight(_)
TrimRight(s) == IF s # <<>> /\ s[Len(s)] \in WhiteSpace
                THEN TrimRight(SubSeq(s, 1, Len(s) - 1)) ELSE s

\* strings.TrimSpace: the text without its leading and trailing white space
TrimSpace(s) == TrimRight(TrimLeft(s))

RECURSIVE Split(_, _)
\* strings.Split by a one-character separator: the fields, empty ones included
Split(s, sep) ==
    IF \A k \in 1..Len(s) : s[k] # sep THEN <<s>>
    ELSE LET k == CHOOSE j \in 1..Len(s) : s[j] = sep /\ \A h \in 1..(j - 1) : s[h] # sep
         IN  <<SubSeq(s, 1, k - 1)>> \o Split(SubSeq(s, k + 1, Len(s)), sep)

RECURSIVE DecVal(_)
DecVal(s) == IF s = <<>> THEN 0
             ELSE 10 * DecVal(SubSeq(s, 1, Len(s) - 1))
                  + (CHOOSE d \in 0..9 : Digits[d + 1] = s[Len(s)])

\* one field of a dotted-decimal IPv4 literal
IPv4Field(f) ==
    /\ f # <<>>
    /\ \A k \in 1..Len(f) : f[k] \in DecDigits
    /\ Len(f) <= 3
    /\ (Len(f) > 1 => f[1] # "0")
    /\ DecVal(f) <= 255

\* net.ParseIP on a literal whose first separator is a dot
ParseIPv4(s) ==
    LET f == Split(s, ".")
    IN  Len(f) = 4 /\ \A k \in 1..4 : IPv4Field(f[k])

\* one colon-separated group of an IPv6 literal
IPv6Group(f) ==
    /\ f # <<>>
    /\ Len(f) <= 4
    /\ \A k \in 1..Len(f) : f[k] \in HexDigits

\* net.ParseIP on a literal whose first separator is a colon
ParseIPv6(s) ==
    LET f == Split(s, ":")
        n == Len(f)
        E == {k \in 1..n : f[k] = <<>>}
        ellipsis == \/ (n = 3 /\ E = {1, 2, 3})
                    \/ (n >= 3 /\ E = {1, 2})
                    \/ (n >= 3 /\ E = {n - 1, n})
                    \/ (\E k \in 2..(n - 1) : E = {k})
        v4tail == f[n] # <<>> /\ (\E k \in 1..Len(f[n]) : f[n][k] = ".")
        groups == Cardinality((1..n) \ E) + (IF v4tail THEN 1 ELSE 0)
    IN  /\ n >= 2
        /\ (E = {} \/ ellipsis)
        /\ \A k \in (1..(n - 1)) \ E : IPv6Group(f[k])
        /\ (f[n] # <<>> => IF v4tail THEN ParseIPv4(f[n]) ELSE IPv6Group(f[n]))
        /\ IF E = {} THEN groups = 8 ELSE groups <= 7

\* net.ParseIP(s) != nil
ParseIP(s) ==
    LET seps == {k \in 1..Len(s) : s[k] \in {".", ":"}}
    IN  /\ seps # {}
        /\ LET k == CHOOSE j \in seps : \A h \in seps : j <= h
           IN  IF s[k] = "." THEN ParseIPv4(s) ELSE ParseIPv6(s)

----------------------------------------------------------------------------
(* testProxy *)

StatusOK == 200     \* http.StatusOK

\* the error text of a context or client whose deadline has passed
TimeoutErr == "context deadline exceeded"

\* addresses url.Parse rejects (an invalid percent-escape in the host)
MalformedAddrs == {"http://%zz"}

\* the error text of url.Parse(proxyURL), "" when it succeeds
UrlParse(proxyURL) ==
    IF proxyURL \in MalformedAddrs THEN "parse: invalid URL escape" ELSE ""

\* the error text of http.NewRequestWithContext(ctx, "GET", pt.testURL, nil):
\* the method and pt.testURL are fixed and valid, so it is always ""
NewRequest == ""

\* testProxy storing the body as the IP before it is validated
testProxy_ipBeforeCheck(proxyURL, net) ==
    LET result == [Proxy |-> proxyURL, IsWorking |-> FALSE, IP |-> <<>>,
                   Error |-> <<>>, Duration |-> net.elapsed]
        ip == TrimSpace(net.body)
    IN  IF UrlParse(proxyURL) # ""
        THEN [result EXCEPT !.Error = <<"Invalid proxy URL: ", UrlParse(proxyURL)>>]
        ELSE IF net.doErr # ""
        THEN [result EXCEPT !.Error = <<"Request failed: ", net.doErr>>]
        ELSE IF net.status # StatusOK
        THEN [result EXCEPT !.Error = <<"HTTP ">> \o Itoa(net.status)]
        ELSE IF net.readErr # ""
        THEN [result EXCEPT !.Error = <<"Failed to read response: ", net.readErr>>]
        ELSE IF ~ParseIP(ip)
        THEN [result EXCEPT !.Error = <<"Invalid IP response">>, !.IP = ip]
        ELSE [result EXCEPT !.IsWorking = TRUE, !.IP = ip]

\* testProxy validating the body without trimming it
testProxy_noTrim(proxyURL, net) ==
    LET result == [Proxy |-> proxyURL, IsWorking |-> FALSE, IP |-> <<>>,
                   Error |-> <<>>, Duration |-> net.elapsed]
        ip == net.body
    IN  IF UrlParse(proxyURL) # ""
        THEN [result EXCEPT !.Error = <<"Invalid proxy URL: ", UrlParse(proxyURL)>>]
        ELSE IF net.doErr # ""
        THEN [result EXCEPT !.Error = <<"Request failed: ", net.doErr>>]
        ELSE IF net.status # StatusOK
        THEN [result EXCEPT !.Error = <<"HTTP ">> \o Itoa(net.status)]
        ELSE IF net.readErr # ""
        THEN [result EXCEPT !.Error = <<"Failed to read response: ", net.readErr>>]
        ELSE IF ~ParseIP(ip)
        THEN [result EXCEPT !.Error = <<"Invalid IP response">>]
        ELSE [result EXCEPT !.IsWorking = TRUE, !.IP = ip]

\* testProxy taking every 2xx status for a success
testProxy_accept2xx(proxyURL, net) ==
    LET result == [Proxy |-> proxyURL, IsWorking |-> FALSE, IP |-> <<>>,
                   Error |-> <<>>, Duration |-> net.elapsed]
        ip == TrimSpace(net.body)
    IN  IF UrlParse(proxyURL) # ""
        THEN [result EXCEPT !.Error = <<"Invalid proxy URL: ", UrlParse(proxyURL)>>]
        ELSE IF net.doErr # ""
        THEN [result EXCEPT !.Error = <<"Request failed: ", net.doErr>>]
        ELSE IF net.status < StatusOK \/ net.status >= StatusOK + 100
        THEN [result EXCEPT !.Error = <<"HTTP ">> \o Itoa(net.status)]
        ELSE IF net.readErr # ""
        THEN [result EXCEPT !.Error = <<"Failed to read response: ", net.readErr>>]
        ELSE IF ~ParseIP(ip)
        THEN [result EXCEPT !.Error = <<"Invalid IP response">>]
        ELSE [result EXCEPT !.IsWorking = TRUE, !.IP = ip]

\* testProxy not looking at the error of io.ReadAll
testProxy_ignoreReadErr(proxyURL, net) ==
    LET result == [Proxy |-> proxyURL, IsWorking |-> FALSE, IP |-> <<>>,
                   Error |-> <<>>, Duration |-> net.elapsed]
        ip == TrimSpace(net.body)
    IN  IF UrlParse(proxyURL) # ""
        THEN [result EXCEPT !.Error = <<"Invalid proxy URL: ", UrlParse(proxyURL)>>]
        ELSE IF net.doErr # ""
        THEN [result EXCEPT !.Error = <<"Request failed: ", net.doErr>>]
        ELSE IF net.status # StatusOK
        THEN [result EXCEPT !.Error = <<"HTTP ">> \o Itoa(net.status)]
        ELSE IF ~ParseIP(ip)
        THEN [result EXCEPT !.Error = <<"Invalid IP response">>]
        ELSE [result EXCEPT !.IsWorking = TRUE, !.IP = ip]

\* The value testProxy returns for proxyURL when the network answers net:
\*   net.doErr    error text of client.Do, "" when a response arrived
\*   net.status   the response's status code
\*   net.readErr  error text of io.ReadAll, "" when the body was read
\*   net.body     the body
\*   net.elapsed  time.Since(start) at the return
testProxy(proxyURL, net) ==
    LET result == [Proxy |-> proxyURL, IsWorking |-> FALSE, IP |-> <<>>,
                   Error |-> <<>>, Duration |-> net.elapsed]
        ip == TrimSpace(net.body)
    IN  IF UrlParse(proxyURL) # ""
        THEN [result EXCEPT !.Error = <<"Invalid proxy URL: ", UrlParse(proxyURL)>>]
        ELSE IF NewRequest # ""
        THEN [result EXCEPT !.Error = <<"Failed to create request: ", NewRequest>>]
        ELSE IF net.doErr # ""
        THEN [result EXCEPT !.Error = <<"Request failed: ", net.doErr>>]
        ELSE IF net.status # StatusOK
        THEN [result EXCEPT !.Error = <<"HTTP ">> \o Itoa(net.status)]
        ELSE IF net.readErr # ""
        THEN [result EXCEPT !.Error = <<"Failed to read response: ", net.readErr>>]
        ELSE IF ~ParseIP(ip)
        THEN [result EXCEPT !.Error = <<"Invalid IP response">>]
        ELSE [result EXCEPT !.IsWorking = TRUE, !.IP = ip]

\* testProxy sending the request before it looks at the error of url.Parse
testProxySteps_requestFirst(proxyURL, net) ==
    <<"url.Parse", "http.NewRequestWithContext", "client.Do">>

\* The library calls testProxy makes for proxyURL when the network answers net,
\* in the order of the code; each early return ends the list
testProxySteps(proxyURL, net) ==
    IF UrlParse(proxyURL) # "" THEN <<"url.Parse">>
    ELSE IF NewRequest # "" THEN <<"url.Parse", "http.NewRequestWithContext">>
    ELSE IF net.doErr # "" \/ net.status # StatusOK
    THEN <<"url.Parse", "http.NewRequestWithContext", "client.Do">>
    ELSE IF net.readErr # ""
    THEN <<"url.Parse", "http.NewRequestWithContext", "client.Do", "io.ReadAll">>
    ELSE <<"url.Parse", "http.NewRequestWithContext", "client.Do", "io.ReadAll",
           "net.ParseIP">>

----------------------------------------------------------------------------
(* TestProxies: inputs *)

Addrs == {"http://a:1", "http://%zz"}

RECURSIVE SeqsUpTo(_, _)
\* the sequences over S of length at most n
SeqsUpTo(S, n) ==
    IF n = 0 THEN {<<>>}
    ELSE LET shorter == SeqsUpTo(S, n - 1)
         IN  shorter \cup {Append(q, x) : q \in shorter, x \in S}

\* what the network may answer to one probe
NoAnswer == [doErr |-> "", status |-> 0, readErr |-> "", body |-> <<>>, elapsed |-> 0]
AnsWorking == [doErr |-> "", status |-> StatusOK, readErr |-> "",
               body |-> <<"1", ".", "2", ".", "3", ".", "4", "\n">>, elapsed |-> 1]
AnsRefused == [doErr |-> "proxyconnect tcp: connection refused", status |-> 0,
               readErr |-> "", body |-> <<>>, elapsed |-> 1]
AnsForbidden == [doErr |-> "", status |-> 403, readErr |-> "",
                 body |-> <<"n", "o">>, elapsed |-> 1]
AnsTimeout == [doErr |-> TimeoutErr, status |-> 0, readErr |-> "", body |-> <<>>,
               elapsed |-> 1]
PoolAnswers == {AnsWorking, AnsRefused, AnsForbidden, AnsTimeout}

Workers == 1..MaxWorkers

\* the zero value of ProxyResult
ZeroResult == [Proxy |-> "", IsWorking |-> FALSE, IP |-> <<>>, Error |-> <<>>, Duration |-> 0]

\* pt.testProxy tabulated over the pool's addresses and answers
ProbeResult == [a \in Addrs \cup {""}, net \in PoolAnswers \cup {NoAnswer} |-> testProxy(a, net)]

----------------------------------------------------------------------------
(* TestProxies: the goroutines *)

\* channels one slot short of the input count
Cap_minusOne == Len(proxies) - 1

\* channels sized by the worker count instead of the input count
Cap_perWorker == maxWorkers

\* cap(jobs) and cap(results): make(chan ..., len(proxies))
Cap == Len(proxies)

\* the state before main calls TestProxies
Init ==
    /\ proxies = <<>>
    /\ maxWorkers = 0
    /\ deterministic = TRUE
    /\ fixture = [a \in Addrs \cup {""} |-> NoAnswer]
    /\ jobs = <<>>
    /\ jobsClosed = FALSE
    /\ results = <<>>
    /\ resultsClosed = FALSE
    /\ wg = 0
    /\ mainpc = "idle"
    /\ i = 0
    /\ sent = 0
    /\ wpc = [w \in Workers |-> "unstarted"]
    /\ wjob = [w \in Workers |-> ""]
    /\ wres = [w \in Workers |-> ZeroResult]
    /\ suppc = "unstarted"
    /\ allResults = <<>>
    /\ probed = EmptyBag
    /\ panicked = FALSE
    /\ pURL = ""
    /\ pNet = NoAnswer
    /\ pOut = ZeroResult
    /\ ppc = "idle"
    /\ pSteps = <<>>
    /\ lLines = <<>>
    /\ lOut = <<>>
    /\ lRead = 0
    /\ lpc = "idle"

\* tester := NewProxyTester(timeout, workers); tester.TestProxies(proxies):
\* the caller's list and worker count, and the network the probes will meet;
\* jobs and results are made empty
CallTestProxies ==
    /\ mainpc = "idle"
    /\ ppc = "idle"
    /\ proxies' \in SeqsUpTo(Addrs, MaxInput)
    /\ maxWorkers' \in (-1)..MaxWorkers
    /\ deterministic' \in BOOLEAN
    /\ fixture' \in [Addrs \cup {""} -> PoolAnswers \cup {NoAnswer}]
    /\ \A a \in Addrs \cup {""} :
           fixture'[a] = NoAnswer <=> (~deterministic' \/ a \notin Addrs \ MalformedAddrs)
    /\ jobs' = <<>>
    /\ results' = <<>>
    /\ mainpc' = "spawn"
    /\ UNCHANGED <<jobsClosed, resultsClosed, wg, i, sent, wpc, wjob, wres, suppc,
                   allResults, probed, panicked, probeVars, loadVars>>

\* wg.Add(1) left out of the loop
StartWorker_noAdd ==
    /\ mainpc = "spawn"
    /\ i < maxWorkers
    /\ wpc' = [wpc EXCEPT ![i + 1] = "recv"]
    /\ i' = i + 1
    /\ UNCHANGED <<proxies, maxWorkers, deterministic, fixture, jobs, jobsClosed,
                   results, resultsClosed, wg, mainpc, sent, wjob, wres, suppc,
                   allResults, probed, panicked, probeVars, loadVars>>

\* the loop written with i <= pt.maxWorkers
StartWorker_offByOne ==
    /\ mainpc = "spawn"
    /\ i <= maxWorkers
    /\ i < MaxWorkers
    /\ wg' = wg + 1
    /\ wpc' = [wpc EXCEPT ![i + 1] = "recv"]
    /\ i' = i + 1
    /\ UNCHANGED <<proxies, maxWorkers, deterministic, fixture, jobs, jobsClosed,
                   results, resultsClosed, mainpc, sent, wjob, wres, suppc,
                   allResults, probed, panicked, probeVars, loadVars>>

\* for i := 0; i < pt.maxWorkers; i++ { wg.Add(1); go func() {...}() }
StartWorker ==
    /\ mainpc = "spawn"
    /\ i < maxWorkers
    /\ wg' = wg + 1
    /\ wpc' = [wpc EXCEPT ![i + 1] = "recv"]
    /\ i' = i + 1
    /\ UNCHANGED <<proxies, maxWorkers, deterministic, fixture, jobs, jobsClosed,
                   results, resultsClosed, mainpc, sent, wjob, wres, suppc,
                   allResults, probed, panicked, probeVars, loadVars>>

\* the jobs sent from a goroutine of their own: sending starts while workers
\* are still being started
WorkersStarted_early ==
    /\ mainpc = "spawn"
    /\ mainpc' = "send"
    /\ UNCHANGED <<proxies, maxWorkers, deterministic, fixture, jobs, jobsClosed,
                   results, resultsClosed, wg, i, sent, wpc, wjob, wres, suppc,
                   allResults, probed, panicked, probeVars, loadVars>>

\* the "Start workers" loop ends
WorkersStarted ==
    /\ mainpc = "spawn"
    /\ ~(i < maxWorkers)
    /\ mainpc' = "send"
    /\ UNCHANGED <<proxies, maxWorkers, deterministic, fixture, jobs, jobsClosed,
                   results, resultsClosed, wg, i, sent, wpc, wjob, wres, suppc,
                   allResults, probed, panicked, probeVars, loadVars>>

\* jobs <- proxy, for the next element of proxies; blocks while the buffer is full
SendJob ==
    /\ mainpc = "send"
    /\ sent < Len(proxies)
    /\ Len(jobs) < Cap
    /\ jobs' = Append(jobs, proxies[sent + 1])
    /\ sent' = sent + 1
    /\ UNCHANGED <<proxies, maxWorkers, deterministic, fixture, jobsClosed,
                   results, resultsClosed, wg, mainpc, i, wpc, wjob, wres, suppc,
                   allResults, probed, panicked, probeVars, loadVars>>

\* close(jobs) left out
CloseJobs_noClose ==
    /\ mainpc = "send"
    /\ sent = Len(proxies)
    /\ mainpc' = "gowait"
    /\ UNCHANGED <<proxies, maxWorkers, deterministic, fixture, jobs, jobsClosed,
                   results, resultsClosed, wg, i, sent, wpc, wjob, wres, suppc,
                   allResults, probed, panicked, probeVars, loadVars>>

\* close(jobs)
CloseJobs ==
    /\ mainpc = "send"
    /\ sent = Len(proxies)
    /\ jobsClosed' = TRUE
    /\ mainpc' = "gowait"
    /\ UNCHANGED <<proxies, maxWorkers, deterministic, fixture, jobs,
                   results, resultsClosed, wg, i, sent, wpc, wjob, wres, suppc,
                   allResults, probed, panicked, probeVars, loadVars>>

\* go func() { wg.Wait(); close(results) }()
StartWaiter ==
    /\ mainpc = "gowait"
    /\ suppc' = "wait"
    /\ mainpc' = "collect"
    /\ UNCHANGED <<proxies, maxWorkers, deterministic, fixture, jobs, jobsClosed,
                   results, resultsClosed, wg, i, sent, wpc, wjob, wres,
                   allResults, probed, panicked, probeVars, loadVars>>

\* wg.Wait() left out: results is closed without waiting for the workers
WaitReturns_noWait ==
    /\ suppc = "wait"
    /\ suppc' = "close"
    /\ UNCHANGED <<proxies, maxWorkers, deterministic, fixture, jobs, jobsClosed,
                   results, resultsClosed, wg, mainpc, i, sent, wpc, wjob, wres,
                   allResults, probed, panicked, probeVars, loadVars>>

\* wg.Wait() returns
WaitReturns ==
    /\ suppc = "wait"
    /\ wg = 0
    /\ suppc' = "close"
    /\ UNCHANGED <<proxies, maxWorkers, deterministic, fixture, jobs, jobsClosed,
                   results, resultsClosed, wg, mainpc, i, sent, wpc, wjob, wres,
                   allResults, probed, panicked, probeVars, loadVars>>

\* close(results)
CloseResults ==
    /\ suppc = "close"
    /\ resultsClosed' = TRUE
    /\ suppc' = "done"
    /\ UNCHANGED <<proxies, maxWorkers, deterministic, fixture, jobs, jobsClosed,
                   results, wg, mainpc, i, sent, wpc, wjob, wres,
                   allResults, probed, panicked, probeVars, loadVars>>

\* for result := range results { allResults = append(allResults, result) }
Collect ==
    /\ mainpc = "collect"
    /\ results # <<>>
    /\ allResults' = Append(allResults, Head(results))
    /\ results' = Tail(results)
    /\ UNCHANGED <<proxies, maxWorkers, deterministic, fixture, jobs, jobsClosed,
                   resultsClosed, wg, mainpc, i, sent, wpc, wjob, wres, suppc,
                   probed, panicked, probeVars, loadVars>>

\* the range over results ends (closed and drained); return allResults
Return ==
    /\ mainpc = "collect"
    /\ results = <<>>
    /\ resultsClosed
    /\ mainpc' = "done"
    /\ UNCHANGED <<proxies, maxWorkers, deterministic, fixture, jobs, jobsClosed,
                   results, resultsClosed, wg, i, sent, wpc, wjob, wres, suppc,
                   allResults, probed, panicked, probeVars, loadVars>>

\* a receive that leaves the address in the queue
WorkerRecv_noConsume(w) ==
    /\ wpc[w] = "recv"
    /\ jobs # <<>>
    /\ wjob' = [wjob EXCEPT ![w] = Head(jobs)]
    /\ wpc' = [wpc EXCEPT ![w] = "probe"]
    /\ UNCHANGED <<proxies, maxWorkers, deterministic, fixture, jobs, jobsClosed,
                   results, resultsClosed, wg, mainpc, i, sent, wres, suppc,
                   allResults, probed, panicked, probeVars, loadVars>>

\* a stack in place of the queue: the newest address is taken first
WorkerRecv_lifo(w) ==
    /\ wpc[w] = "recv"
    /\ jobs # <<>>
    /\ wjob' = [wjob EXCEPT ![w] = jobs[Len(jobs)]]
    /\ jobs' = SubSeq(jobs, 1, Len(jobs) - 1)
    /\ wpc' = [wpc EXCEPT ![w] = "probe"]
    /\ UNCHANGED <<proxies, maxWorkers, deterministic, fixture, jobsClosed,
                   results, resultsClosed, wg, mainpc, i, sent, wres, suppc,
                   allResults, probed, panicked, probeVars, loadVars>>

\* proxy := <-jobs without the range: a closed, drained channel yields ""
WorkerRecv_zeroValue(w) ==
    /\ wpc[w] = "recv"
    /\ jobs # <<>> \/ jobsClosed
    /\ wjob' = [wjob EXCEPT ![w] = IF jobs # <<>> THEN Head(jobs) ELSE ""]
    /\ jobs' = IF jobs # <<>> THEN Tail(jobs) ELSE jobs
    /\ wpc' = [wpc EXCEPT ![w] = "probe"]
    /\ UNCHANGED <<proxies, maxWorkers, deterministic, fixture, jobsClosed,
                   results, resultsClosed, wg, mainpc, i, sent, wres, suppc,
                   allResults, probed, panicked, probeVars, loadVars>>

\* for proxy := range jobs: a worker receives the next address
WorkerRecv(w) ==
    /\ wpc[w] = "recv"
    /\ jobs # <<>>
    /\ wjob' = [wjob EXCEPT ![w] = Head(jobs)]
    /\ jobs' = Tail(jobs)
    /\ wpc' = [wpc EXCEPT ![w] = "probe"]
    /\ UNCHANGED <<proxies, maxWorkers, deterministic, fixture, jobsClosed,
                   results, resultsClosed, wg, mainpc, i, sent, wres, suppc,
                   allResults, probed, panicked, probeVars, loadVars>>

\* one context shared by all probes: when a probe's deadline passes, every
\* probe in flight is cancelled with it
WorkerProbe_cancelAll(w) ==
    /\ wpc[w] = "probe"
    /\ \E net \in (IF deterministic THEN {fixture[wjob[w]]} ELSE PoolAnswers) :
           IF net = AnsTimeout
           THEN /\ wres' = [v \in Workers |->
                              IF wpc[v] = "probe" THEN ProbeResult[wjob[v], AnsTimeout]
                              ELSE wres[v]]
                /\ wpc' = [v \in Workers |-> IF wpc[v] = "probe" THEN "send" ELSE wpc[v]]
                /\ LET W == {v \in Workers : wpc[v] = "probe"}
                   IN  probed' = probed (+)
                           [a \in {wjob[v] : v \in W} |->
                               Cardinality({v \in W : wjob[v] = a})]
           ELSE /\ wres' = [wres EXCEPT ![w] = ProbeResult[wjob[w], net]]
                /\ wpc' = [wpc EXCEPT ![w] = "send"]
                /\ probed' = probed (+) SetToBag({wjob[w]})
    /\ UNCHANGED <<proxies, maxWorkers, deterministic, fixture, jobs, jobsClosed,
                   results, resultsClosed, wg, mainpc, i, sent, wjob, suppc,
                   allResults, panicked, probeVars, loadVars>>

\* result declared outside the goroutines: one variable shared by all workers
WorkerProbe_sharedResult(w) ==
    /\ wpc[w] = "probe"
    /\ \E net \in (IF deterministic THEN {fixture[wjob[w]]} ELSE PoolAnswers) :
           wres' = [v \in Workers |-> ProbeResult[wjob[w], net]]
    /\ probed' = probed (+) SetToBag({wjob[w]})
    /\ wpc' = [wpc EXCEPT ![w] = "send"]
    /\ UNCHANGED <<proxies, maxWorkers, deterministic, fixture, jobs, jobsClosed,
                   results, resultsClosed, wg, mainpc, i, sent, wjob, suppc,
                   allResults, panicked, probeVars, loadVars>>

\* result := pt.testProxy(proxy)
WorkerProbe(w) ==
    /\ wpc[w] = "probe"
    /\ \E net \in (IF deterministic THEN {fixture[wjob[w]]} ELSE PoolAnswers) :
           wres' = [wres EXCEPT ![w] = ProbeResult[wjob[w], net]]
    /\ probed' = probed (+) SetToBag({wjob[w]})
    /\ wpc' = [wpc EXCEPT ![w] = "send"]
    /\ UNCHANGED <<proxies, maxWorkers, deterministic, fixture, jobs, jobsClosed,
                   results, resultsClosed, wg, mainpc, i, sent, wjob, suppc,
                   allResults, panicked, probeVars, loadVars>>

\* a worker that stops at the first failed probe
WorkerSend_abortOnFailure(w) ==
    /\ wpc[w] = "send"
    /\ ~resultsClosed
    /\ Len(results) < Len(proxies)
    /\ results' = Append(results, wres[w])
    /\ wpc' = [wpc EXCEPT ![w] = IF wres[w].IsWorking THEN "recv" ELSE "done"]
    /\ wg' = IF wres[w].IsWorking THEN wg ELSE wg - 1
    /\ UNCHANGED <<proxies, maxWorkers, deterministic, fixture, jobs, jobsClosed,
                   resultsClosed, mainpc, i, sent, wjob, wres, suppc,
                   allResults, probed, panicked, probeVars, loadVars>>

\* results <- result; blocks while the buffer is full, panics on a closed channel
WorkerSend(w) ==
    /\ wpc[w] = "send"
    /\ IF resultsClosed
       THEN /\ panicked' = TRUE
            /\ wpc' = [wpc EXCEPT ![w] = "panic"]
            /\ UNCHANGED results
       ELSE /\ Len(results) < Cap
            /\ results' = Append(results, wres[w])
            /\ wpc' = [wpc EXCEPT ![w] = "recv"]
            /\ UNCHANGED panicked
    /\ UNCHANGED <<proxies, maxWorkers, deterministic, fixture, jobs, jobsClosed,
                   resultsClosed, wg, mainpc, i, sent, wjob, wres, suppc,
                   allResults, probed, probeVars, loadVars>>

\* a worker that leaves as soon as it finds jobs empty, closed or not
WorkerExit_whenEmpty(w) ==
    /\ wpc[w] = "recv"
    /\ jobs = <<>>
    /\ wg' = wg - 1
    /\ wpc' = [wpc EXCEPT ![w] = "done"]
    /\ UNCHANGED <<proxies, maxWorkers, deterministic, fixture, jobs, jobsClosed,
                   results, resultsClosed, mainpc, i, sent, wjob, wres, suppc,
                   allResults, probed, panicked, probeVars, loadVars>>

\* the range over jobs ends (closed and drained); the deferred wg.Done() runs
WorkerExit(w) ==
    /\ wpc[w] = "recv"
    /\ jobs = <<>>
    /\ jobsClosed
    /\ wg' = wg - 1
    /\ wpc' = [wpc EXCEPT ![w] = "done"]
    /\ UNCHANGED <<proxies, maxWorkers, deterministic, fixture, jobs, jobsClosed,
                   results, resultsClosed, mainpc, i, sent, wjob, wres, suppc,
                   allResults, probed, panicked, probeVars, loadVars>>

Next ==
    \/ CallTestProxies
    \/ StartWorker
    \/ WorkersStarted
    \/ SendJob
    \/ CloseJobs
    \/ StartWaiter
    \/ WaitReturns
    \/ CloseResults
    \/ Collect
    \/ Return
    \/ \E w \in Workers : WorkerRecv(w)
    \/ \E w \in Workers : WorkerProbe(w)
    \/ \E w \in Workers : WorkerSend(w)
    \/ \E w \in Workers : WorkerExit(w)

Spec == Init /\ [][Next]_vars

\* the Go scheduler runs a goroutine that can take a step, and every call of
\* testProxy returns (client.Timeout bounds it): some enabled step is taken
Fairness == WF_vars(Next)

FairSpec == Spec /\ Fairness

----------------------------------------------------------------------------
(* testProxy on its own *)

BodyAlphabet == {"1", ":", ".", " ", "\n", "x"}

\* literals too long to be enumerated
BodySamples ==
    { <<"1", ".", "2", ".", "3", ".", "4">>,
      <<"1", ".", "2", ".", "3", ".", "4", "\n">>,
      <<" ", "1", "0", ".", "0", ".", "0", ".", "2", "5", "5", "\r", "\n">>,
      <<"2", "5", "6", ".", "1", ".", "1", ".", "1">>,
      <<"1", ".", "2", ".", "3", ".", "4", ".", "5">>,
      <<"1", ".", "2", " ", ".", "3", ".", "4">>,
      <<"f", "e", "8", "0", ":", ":", "1", "\n">>,
      <<"h", "e", "l", "l", "o">> }

Bodies == SeqsUpTo(BodyAlphabet, MaxBody) \cup BodySamples

\* what the network may answer to one call of testProxy
NetAnswers ==
    { [doErr |-> e, status |-> 0, readErr |-> "", body |-> <<>>, elapsed |-> t] :
        e \in {"proxyconnect tcp: connection refused", TimeoutErr},
        t \in {0, 1} }
    \cup
    { [doErr |-> "", status |-> c, readErr |-> r, body |-> b, elapsed |-> 1] :
        c \in {StatusOK, 204, 403},
        r \in {"", "unexpected EOF", TimeoutErr},
        b \in Bodies }

ProbeInit ==
    /\ proxies = <<>>
    /\ maxWorkers = 0
    /\ deterministic = TRUE
    /\ fixture = [a \in Addrs \cup {""} |-> NoAnswer]
    /\ jobs = <<>>
    /\ jobsClosed = FALSE
    /\ results = <<>>
    /\ resultsClosed = FALSE
    /\ wg = 0
    /\ mainpc = "idle"
    /\ i = 0
    /\ sent = 0
    /\ wpc = [w \in Workers |-> "unstarted"]
    /\ wjob = [w \in Workers |-> ""]
    /\ wres = [w \in Workers |-> ZeroResult]
    /\ suppc = "unstarted"
    /\ allResults = <<>>
    /\ probed = EmptyBag
    /\ panicked = FALSE
    /\ pURL \in Addrs
    /\ pNet \in NetAnswers
    /\ pOut = ZeroResult
    /\ ppc = "call"
    /\ pSteps = <<>>
    /\ lLines = <<>>
    /\ lOut = <<>>
    /\ lRead = 0
    /\ lpc = "idle"

\* pt.testProxy(pURL) runs and returns
TestProxyCall ==
    /\ ppc = "call"
    /\ pOut' = testProxy(pURL, pNet)
    /\ pSteps' = testProxySteps(pURL, pNet)
    /\ ppc' = "ret"
    /\ UNCHANGED <<poolVars, pURL, pNet, loadVars>>

ProbeNext == TestProxyCall

ProbeSpec == ProbeInit /\ [][ProbeNext]_vars

----------------------------------------------------------------------------
(* loadProxiesFromReader *)

\* strings.HasPrefix
HasPrefix(s, prefix) ==
    Len(s) >= Len(prefix) /\ SubSeq(s, 1, Len(prefix)) = prefix

HttpScheme == <<"h", "t", "t", "p", ":", "/", "/">>
HttpsScheme == <<"h", "t", "t", "p", "s", ":", "/", "/">>
Socks5Scheme == <<"s", "o", "c", "k", "s", "5", ":", "/", "/">>

LineAlphabet == {"#", " ", "a"}

\* lines too long to be enumerated
LineSamples ==
    { HttpScheme \o <<"a">>,
      HttpsScheme \o <<"a">>,
      Socks5Scheme \o <<"a">>,
      <<" ">> \o HttpsScheme \o <<"a", " ">>,
      <<"\t">> \o Socks5Scheme \o <<"a", ":", "1", "\t">>,
      <<"H", "T", "T", "P", ":", "/", "/", "a">>,
      <<"h", "t", "t", "p", ":", "/", "a">>,
      <<"f", "t", "p", ":", "/", "/", "a">>,
      <<"a", ":", "1">>,
      <<" ", " ", "#", " ">> \o HttpScheme \o <<"a">>,
      <<"a", " ", "#", "a">> }

Lines == SeqsUpTo(LineAlphabet, MaxLine) \cup LineSamples

LoadInit ==
    /\ proxies = <<>>
    /\ maxWorkers = 0
    /\ deterministic = TRUE
    /\ fixture = [a \in Addrs \cup {""} |-> NoAnswer]
    /\ jobs = <<>>
    /\ jobsClosed = FALSE
    /\ results = <<>>
    /\ resultsClosed = FALSE
    /\ wg = 0
    /\ mainpc = "idle"
    /\ i = 0
    /\ sent = 0
    /\ wpc = [w \in Workers |-> "unstarted"]
    /\ wjob = [w \in Workers |-> ""]
    /\ wres = [w \in Workers |-> ZeroResult]
    /\ suppc = "unstarted"
    /\ allResults = <<>>
    /\ probed = EmptyBag
    /\ panicked = FALSE
    /\ pURL = ""
    /\ pNet = NoAnswer
    /\ pOut = ZeroResult
    /\ ppc = "idle"
    /\ pSteps = <<>>
    /\ lLines \in SeqsUpTo(Lines, MaxLines)
    /\ lOut = <<>>
    /\ lRead = 0
    /\ lpc = "scan"

\* the loop body recognizing http:// only
ScanLine_onlyHttp ==
    /\ lpc = "scan"
    /\ lRead < Len(lLines)
    /\ LET line == TrimSpace(lLines[lRead + 1])
       IN  lOut' = IF line # <<>> /\ ~HasPrefix(line, <<"#">>)
                   THEN Append(lOut, IF ~HasPrefix(line, HttpScheme)
                                     THEN HttpScheme \o line
                                     ELSE line)
                   ELSE lOut
    /\ lRead' = lRead + 1
    /\ UNCHANGED <<poolVars, probeVars, lLines, lpc>>

\* scanner.Scan() delivers a line: one pass of the loop body
ScanLine ==
    /\ lpc = "scan"
    /\ lRead < Len(lLines)
    /\ LET line == TrimSpace(lLines[lRead + 1])
       IN  lOut' = IF line # <<>> /\ ~HasPrefix(line, <<"#">>)
                   THEN Append(lOut, IF /\ ~HasPrefix(line, HttpScheme)
                                        /\ ~HasPrefix(line, HttpsScheme)
                                        /\ ~HasPrefix(line, Socks5Scheme)
                                     THEN HttpScheme \o line
                                     ELSE line)
                   ELSE lOut
    /\ lRead' = lRead + 1
    /\ UNCHANGED <<poolVars, probeVars, lLines, lpc>>

\* scanner.Scan() reports the end of the input; return proxies, scanner.Err()
ScanEnd ==
    /\ lpc = "scan"
    /\ lRead = Len(lLines)
    /\ lpc' = "ret"
    /\ UNCHANGED <<poolVars, probeVars, lLines, lOut, lRead>>

LoadNext == ScanLine \/ ScanEnd

LoadSpec == LoadInit /\ [][LoadNext]_vars

\* a recognized scheme starts the address
HasScheme(a) ==
    HasPrefix(a, HttpScheme) \/ HasPrefix(a, HttpsScheme) \/ HasPrefix(a, Socks5Scheme)

\* the lines scanned so far that are neither blank nor comments, by position
KeptLines ==
    {j \in 1..lRead : /\ TrimSpace(lLines[j]) # <<>>
                      /\ TrimSpace(lLines[j])[1] # "#"}

\* C18: every address loadProxiesFromReader holds or returns starts with
\* http://, https:// or socks5://. Taking each line as trimmed of surrounding
\* white space: a blank line or a line beginning with # gives no address, a line
\* without a recognized scheme gives http:// followed by the line, a line with
\* one gives the line itself, and the addresses are in the order of their lines.
C18_LoadedAddressesHaveScheme ==
    lpc \in {"scan", "ret"} =>
        /\ \A k \in 1..Len(lOut) : HasScheme(lOut[k])
        /\ Len(lOut) = Cardinality(KeptLines)
        /\ \A j \in KeptLines :
              LET line == TrimSpace(lLines[j])
                  k == Cardinality({h \in KeptLines : h <= j})
              IN  /\ HasScheme(line) => lOut[k] = line
                  /\ ~HasScheme(line) => lOut[k] = HttpScheme \o line

\* the list was read to its end: a comment skipped, a bare host:port given
\* http://, an https:// line kept
C18_Witness ==
    /\ lpc = "ret"
    /\ Len(lLines) = 2
    /\ lLines[1] = <<"a", ":", "1">>
    /\ lLines[2] = <<" ">> \o HttpsScheme \o <<"a", " ">>
    /\ lOut = <<HttpScheme \o <<"a", ":", "1">>, HttpsScheme \o <<"a">>>>

----------------------------------------------------------------------------
(* Properties of TestProxies *)

\* the multiset of the elements of a sequence
SeqToBag(s) ==
    [x \in {s[k] : k \in 1..Len(s)} |-> Cardinality({k \in 1..Len(s) : s[k] = x})]

ProxyFields(rs) == [k \in 1..Len(rs) |-> rs[k].Proxy]

Returned == mainpc = "done"

StartedWorkers == {w \in Workers : wpc[w] # "unstarted"}

InFlight == {w \in Workers : wpc[w] = "probe"}

\* C1: with a worker count >= 1, the collection TestProxies returns has as many
\* entries as the input and the multiset of its Proxy fields is the multiset of
\* the input addresses, duplicates included: nothing dropped, nothing twice.
C1_NoDropNoDuplicate ==
    (Returned /\ maxWorkers >= 1) =>
        /\ Len(allResults) = Len(proxies)
        /\ SeqToBag(ProxyFields(allResults)) = SeqToBag(proxies)

\* TestProxies has returned for a list holding the same address twice, run by two workers
C1_Witness ==
    /\ Returned
    /\ maxWorkers = 2
    /\ Len(proxies) = 2
    /\ proxies[1] = proxies[2]
    /\ Len(allResults) = 2

\* C2: with a worker count >= 1, when TestProxies has returned every input
\* address has been probed, no worker still probes or holds an undelivered
\* result, and nothing is left in the jobs or results channel: every result
\* has reached the collector.
C2_ReturnAfterAllProbed ==
    (Returned /\ maxWorkers >= 1) =>
        /\ probed = SeqToBag(proxies)
        /\ \A w \in StartedWorkers : wpc[w] = "done"
        /\ jobs = <<>>
        /\ results = <<>>
        /\ SeqToBag(ProxyFields(allResults)) = probed

\* TestProxies has returned after two probes made by two different workers
C2_Witness ==
    /\ Returned
    /\ Len(proxies) = 2
    /\ \A w \in Workers : wpc[w] = "done" /\ wjob[w] # ""
    /\ Len(allResults) = 2

AllFinished ==
    /\ Returned
    /\ suppc = "done"
    /\ \A w \in Workers : w <= maxWorkers => wpc[w] = "done"

\* C3: once TestProxies is called with a worker count >= 1, it eventually
\* returns with every worker and the waiting goroutine finished: nothing is
\* blocked forever, and a worker that never gets an address exits too.
C3_EventuallyReturns ==
    (mainpc = "spawn" /\ maxWorkers >= 1) ~> AllFinished

\* everything finished with more workers than addresses, one worker never having
\* received an address
C3_Witness ==
    /\ AllFinished
    /\ proxies # <<>>
    /\ maxWorkers > Len(proxies)
    /\ \E w \in Workers : w <= maxWorkers /\ wjob[w] = ""

\* C4: called with a worker count <= 0 and a non-empty list, TestProxies
\* eventually returns, with an empty result and without any address having
\* been probed.
C4_NoWorkersReturnsEmpty ==
    (mainpc = "spawn" /\ maxWorkers <= 0 /\ proxies # <<>>)
        ~> (Returned /\ allResults = <<>> /\ probed = EmptyBag /\ ~panicked)

\* returned without workers, the addresses still sitting in the jobs channel
C4_Witness ==
    /\ Returned
    /\ maxWorkers <= 0
    /\ Len(proxies) = MaxInput
    /\ jobs = proxies
    /\ allResults = <<>>

\* C5: called with an empty list, whatever the worker count, TestProxies
\* eventually returns an empty result and no worker has probed anything.
C5_EmptyInputEmptyOutput ==
    (mainpc = "spawn" /\ proxies = <<>>)
        ~> (Returned /\ allResults = <<>> /\ probed = EmptyBag)

\* returned for the empty list after workers were started and have left
C5_Witness ==
    /\ Returned
    /\ proxies = <<>>
    /\ maxWorkers = MaxWorkers
    /\ \A w \in Workers : wpc[w] = "done"
    /\ allResults = <<>>

\* what a run over proxies returns, as a multiset, when the network answers by fixture
ExpectedResults ==
    SeqToBag([k \in 1..Len(proxies) |-> ProbeResult[proxies[k], fixture[proxies[k]]]])

\* C6: with a deterministic answer per address, the multiset of results
\* TestProxies returns is the same for every worker count >= 1 (it is the
\* multiset of testProxy over the input), so worker count 1 and worker count
\* N = input size return the same results, order ignored.
C6_SameResultsForAnyWorkerCount ==
    (Returned /\ deterministic /\ maxWorkers >= 1) =>
        SeqToBag(allResults) = ExpectedResults

\* returned with as many workers as addresses, the addresses distinct
C6_Witness ==
    /\ Returned
    /\ deterministic
    /\ Len(proxies) = 2
    /\ maxWorkers = Len(proxies)
    /\ proxies[1] # proxies[2]
    /\ \A w \in Workers : wjob[w] # ""

\* C7: with a worker count >= 1 and whatever the probes answer, no address is
\* ever probed more often than it occurs in the input, and at the return every
\* address has been probed exactly as often as it occurs: a failed probe
\* neither stops nor repeats the probe of another address.
C7_EachProbedOnce ==
    (mainpc # "idle" /\ maxWorkers >= 1) =>
        /\ probed \sqsubseteq SeqToBag(proxies)
        /\ Returned => probed = SeqToBag(proxies)

\* returned after a failed probe that was followed by a successful one
C7_Witness ==
    /\ Returned
    /\ maxWorkers = 1
    /\ Len(allResults) = 2
    /\ ~allResults[1].IsWorking
    /\ allResults[2].IsWorking

\* C8: the number of probes in flight never exceeds the worker count (none
\* with a worker count <= 0, at most one with worker count 1).
C8_InFlightAtMostWorkers ==
    /\ maxWorkers <= 0 => InFlight = {}
    /\ maxWorkers >= 1 => Cardinality(InFlight) <= maxWorkers

\* every worker of a two-worker pool is probing
C8_Witness ==
    /\ maxWorkers = 2
    /\ Cardinality(InFlight) = 2

----------------------------------------------------------------------------
(* Properties of testProxy *)

\* a formatted text is empty when every part of it is
Empty(text) == \A k \in 1..Len(text) : text[k] = ""

\* C9: every result of testProxy carries exactly one of an IP and an error:
\* the IP is non-empty exactly when IsWorking, the error is non-empty exactly
\* when not IsWorking.
C9_IPXorError ==
    ppc = "ret" =>
        /\ ~Empty(pOut.IP) <=> pOut.IsWorking
        /\ ~Empty(pOut.Error) <=> ~pOut.IsWorking
        /\ ~(~Empty(pOut.IP) /\ ~Empty(pOut.Error))

\* testProxy returned a failure for a 200 response whose body is not an IP
C9_Witness ==
    /\ ppc = "ret"
    /\ pNet.doErr = "" /\ pNet.status = StatusOK /\ pNet.readErr = ""
    /\ pNet.body = <<"x">>
    /\ ~pOut.IsWorking

AllChecksPass ==
    /\ UrlParse(pURL) = ""
    /\ pNet.doErr = ""
    /\ pNet.status = StatusOK
    /\ pNet.readErr = ""

\* C10: testProxy returns IsWorking exactly when the address parses, the request
\* meets no transport error, the status is 200, the body is read and the
\* trimmed body is an IP literal; the IP field is then the trimmed body; when
\* only the last condition fails the result is not working with the error
\* "Invalid IP response".
C10_WorkingIffAllChecks ==
    ppc = "ret" =>
        /\ pOut.IsWorking <=> (AllChecksPass /\ ParseIP(TrimSpace(pNet.body)))
        /\ pOut.IsWorking => pOut.IP = TrimSpace(pNet.body)
        /\ (AllChecksPass /\ ~ParseIP(TrimSpace(pNet.body))) =>
               (~pOut.IsWorking /\ pOut.Error = <<"Invalid IP response">>)

\* testProxy returned working for a body that had white space around the literal
C10_Witness ==
    /\ ppc = "ret"
    /\ pOut.IsWorking
    /\ pNet.body # TrimSpace(pNet.body)
    /\ pOut.IP = TrimSpace(pNet.body)

\* the steps of testProxy that build or send a request, or read from the network
RequestSteps == {"http.NewRequestWithContext", "client.Do", "io.ReadAll"}

\* C11: when url.Parse rejects the address, testProxy returns not working with
\* the error "Invalid proxy URL: " followed by the parse error, and it has
\* neither built nor sent a request: no network I/O on that path.
C11_ParseFailureNoNetwork ==
    (ppc = "ret" /\ UrlParse(pURL) # "") =>
        /\ ~pOut.IsWorking
        /\ pOut.Error = <<"Invalid proxy URL: ", UrlParse(pURL)>>
        /\ Empty(pOut.IP)
        /\ \A k \in 1..Len(pSteps) : pSteps[k] \notin RequestSteps

\* testProxy returned for a malformed address whose proxy would have answered with an IP
C11_Witness ==
    /\ ppc = "ret"
    /\ pURL \in MalformedAddrs
    /\ pNet.doErr = "" /\ pNet.status = StatusOK /\ pNet.readErr = ""
    /\ pNet.body = <<":", ":">>
    /\ ~pOut.IsWorking
    /\ pSteps = <<"url.Parse">>

\* sub occurs in text as a run of consecutive elements
Contains(text, sub) ==
    \E k \in 0..(Len(text) - Len(sub)) : SubSeq(text, k + 1, k + Len(sub)) = sub

\* C12: for every response whose status is not 200 (204 included), testProxy
\* returns not working, with an error holding the decimal status code and with
\* no IP, whatever the body is.
C12_Non200Fails ==
    (ppc = "ret" /\ UrlParse(pURL) = "" /\ pNet.doErr = "" /\ pNet.status # StatusOK) =>
        /\ ~pOut.IsWorking
        /\ Empty(pOut.IP)
        /\ Contains(pOut.Error, Itoa(pNet.status))

\* testProxy returned a failure for a 204 response whose body is an IP literal
C12_Witness ==
    /\ ppc = "ret"
    /\ UrlParse(pURL) = ""
    /\ pNet.doErr = "" /\ pNet.status = 204 /\ pNet.readErr = ""
    /\ pNet.body = <<":", ":", "1">>
    /\ pOut.Error = <<"HTTP ", "2", "0", "4">>

\* the deadline passed before client.Do returned (DNS, connect, TLS, header wait)
TimedOutInDo == UrlParse(pURL) = "" /\ pNet.doErr = TimeoutErr

\* the deadline passed while io.ReadAll was reading the body of a 200 response
TimedOutInBody ==
    /\ UrlParse(pURL) = ""
    /\ pNet.doErr = ""
    /\ pNet.status = StatusOK
    /\ pNet.readErr = TimeoutErr

\* C13 as claimed: whenever the deadline passes, in client.Do or during the
\* body read, the result is not working with the transport-failure error
\* ("Request failed: ...").
C13_TimeoutIsTransportFailure ==
    (ppc = "ret" /\ (TimedOutInDo \/ TimedOutInBody)) =>
        /\ ~pOut.IsWorking
        /\ pOut.Error = <<"Request failed: ", TimeoutErr>>

\* C13 amended: a deadline that passes in client.Do gives not working with the
\* transport-failure error; a deadline that passes during the body read gives
\* not working with the read-failure error ("Failed to read response: ...").
C13_TimeoutByStage ==
    ppc = "ret" =>
        /\ TimedOutInDo =>
               (~pOut.IsWorking /\ pOut.Error = <<"Request failed: ", TimeoutErr>>)
        /\ TimedOutInBody =>
               (~pOut.IsWorking /\ Empty(pOut.IP)
                /\ pOut.Error = <<"Failed to read response: ", TimeoutErr>>)

\* testProxy returned after the deadline passed during the read of a body
\* that already held an IP literal
C13_Witness ==
    /\ ppc = "ret"
    /\ TimedOutInBody
    /\ pNet.body = <<":", ":", "1">>
    /\ ~pOut.IsWorking
    /\ pSteps[Len(pSteps)] = "io.ReadAll"

----------------------------------------------------------------------------
(* Properties of the channels of TestProxies *)

\* C14: results is closed only after every worker has finished, and once: no
\* worker sends on the closed channel, the close is not run on a channel
\* already closed, and the collector does not reach the end of the stream
\* while a worker probes or holds an undelivered result.
C14_CloseAfterWorkers ==
    /\ resultsClosed =>
           /\ suppc = "done"
           /\ \A w \in Workers : wpc[w] \in {"unstarted", "done"}
           /\ \A w \in Workers : w <= maxWorkers => wpc[w] = "done"
    /\ suppc = "close" => ~resultsClosed
    /\ ~panicked
    /\ Returned => \A w \in Workers : wpc[w] \notin {"probe", "send"}

\* results was closed after two workers left, their results still buffered
C14_Witness ==
    /\ resultsClosed
    /\ mainpc = "collect"
    /\ maxWorkers = 2
    /\ \A w \in Workers : wpc[w] = "done" /\ wjob[w] # ""
    /\ Len(results) = 2

\* C15: no address is on the jobs channel, or has been, while fewer than
\* maxWorkers workers are started.
C15_WorkersBeforeJobs ==
    (sent >= 1 \/ jobs # <<>>) =>
        /\ i >= maxWorkers
        /\ \A w \in Workers : w <= maxWorkers => wpc[w] # "unstarted"

\* the first address has just been sent; both workers are started and wait
C15_Witness ==
    /\ sent = 1
    /\ jobs # <<>>
    /\ maxWorkers = 2
    /\ \A w \in Workers : wpc[w] = "recv"

\* C16: jobs holds at most len(proxies) addresses and has room whenever the
\* caller is about to send, so the send does not block; jobs is closed only
\* after every address has been sent and nothing is sent after the close.
C16_JobsNeverBlockClosedLast ==
    /\ Len(jobs) <= Len(proxies)
    /\ (mainpc = "send" /\ sent < Len(proxies)) => Len(jobs) < Cap
    /\ jobsClosed => (sent = Len(proxies) /\ mainpc \notin {"spawn", "send"})

\* every address is in the queue, no worker has taken one, and the queue is closed
C16_Witness ==
    /\ jobsClosed
    /\ maxWorkers = 2
    /\ Len(proxies) = MaxInput
    /\ jobs = proxies
    /\ \A w \in Workers : wpc[w] = "recv"

\* C19: results never holds more than len(proxies) results, and a worker that
\* is about to send finds room in it and finds it open: the send does not wait
\* for the collector.
C19_ResultSendNeverBlocks ==
    /\ Len(results) <= Len(proxies)
    /\ \A w \in Workers :
           wpc[w] = "send" => (Len(results) < Cap /\ ~resultsClosed)

\* every result is buffered while the caller has not yet closed jobs, let alone
\* begun to collect
C19_Witness ==
    /\ mainpc = "send"
    /\ Len(proxies) = MaxInput
    /\ Len(results) = Len(proxies)
    /\ allResults = <<>>

\* C20: jobs holds the addresses sent and not yet taken, in input order, so
\* they are taken in input order; with one worker the returned results are in
\* input order, position by position.
C20_FifoAndSequentialOrder ==
    /\ mainpc # "idle" =>
           jobs = SubSeq(proxies, sent - Len(jobs) + 1, sent)
    /\ (Returned /\ maxWorkers = 1) => ProxyFields(allResults) = proxies

\* with two workers the results came back in an order that is not the input order
C20_Witness ==
    /\ Returned
    /\ maxWorkers = 2
    /\ Len(allResults) = Len(proxies)
    /\ ProxyFields(allResults) # proxies
    /\ SeqToBag(ProxyFields(allResults)) = SeqToBag(proxies)

\* the result of a probe whose deadline passed
TimedOut(r) == r.Error = <<"Request failed: ", TimeoutErr>>

\* C17: the step in which a worker's probe times out changes nothing but that
\* worker: the position, address and result of every other worker, the jobs
\* still queued and the results already sent stay as they are; the worker then
\* delivers its result and goes back to the jobs channel; and the result of any
\* other probe is the one its own address gets from the network.
C17_TimeoutCancelsOnlyItsProbe ==
    [][ /\ \A w \in Workers :
              (wpc[w] = "probe" /\ wpc'[w] # "probe" /\ TimedOut(wres'[w])) =>
                  /\ wpc'[w] = "send"
                  /\ \A v \in Workers \ {w} :
                        wpc'[v] = wpc[v] /\ wjob'[v] = wjob[v] /\ wres'[v] = wres[v]
                  /\ UNCHANGED <<jobs, jobsClosed, results, resultsClosed, wg,
                                 allResults, mainpc, suppc>>
        /\ \A w \in Workers :
              (wpc[w] = "send" /\ TimedOut(wres[w]) /\ wpc'[w] # "send") =>
                  /\ wpc'[w] = "recv"
                  /\ results' = Append(results, wres[w])
                  /\ UNCHANGED jobs
        /\ \A v \in Workers :
              (deterministic /\ wpc[v] = "probe" /\ wpc'[v] # "probe") =>
                  wres'[v] = ProbeResult[wjob[v], fixture[wjob[v]]]
      ]_vars

\* one worker holds the result of a timed-out probe while another is in its probe
C17_Witness ==
    \E w, v \in Workers :
        /\ w # v
        /\ wpc[w] = "send"
        /\ TimedOut(wres[w])
        /\ wpc[v] = "probe"
        /\ jobs = <<>>

====
